---- MODULE Spec2Model ----
(***************************************************************************)
(* Cross-interview inconsistency detection                                 *)
(* (audio_analysis/analysis/inconsistency.py, class InconsistencyDetector) *)
(*                                                                         *)
(* A text is the sequence of its whitespace-delimited words (what          *)
(* str.split() returns).  A similarity score is kept in thousandths,       *)
(* truncated: floor(1000 * s).  Truncation keeps every comparison with a   *)
(* threshold that is itself a whole number of thousandths exact.           *)
(***************************************************************************)
EXTENDS Integers, Sequences, FiniteSets, TLC

(***************************************************************************)
(* Bounds of the model                                                     *)
(***************************************************************************)
MaxInterviews == 3
MaxSegments == 3
MaxStatements == 4

(***************************************************************************)
(* Configuration (audio_analysis/config.py)                                *)
(***************************************************************************)
LANGUAGE == "es"
INCONSISTENCY_SIMILARITY_THRESHOLD == 700

\* TfidfVectorizer(ngram_range=(1, 2), min_df=2, max_df=0.85); max_df in hundredths
min_df == 2
max_df == 85

(***************************************************************************)
(* Generic helpers on sequences and ordered dictionaries.  A Python dict   *)
(* is a sequence of <<key, value>> pairs in insertion order.               *)
(***************************************************************************)
Range(s) == {s[x] : x \in DOMAIN s}

RECURSIVE Flatten(_)
Flatten(ss) == IF ss = <<>> THEN <<>> ELSE Head(ss) \o Flatten(Tail(ss))

Reversed(seq) == [x \in DOMAIN seq |-> seq[Len(seq) + 1 - x]]

Keys(d) == [x \in DOMAIN d |-> d[x][1]]
HasKey(d, key) == \E x \in DOMAIN d : d[x][1] = key
Get(d, key) == d[CHOOSE x \in DOMAIN d : d[x][1] = key][2]
GetOr(d, key, default) == IF HasKey(d, key) THEN Get(d, key) ELSE default
Put(d, key, val) ==
    IF HasKey(d, key)
    THEN [x \in DOMAIN d |-> IF d[x][1] = key THEN <<key, val>> ELSE d[x]]
    ELSE Append(d, <<key, val>>)

(***************************************************************************)
(* Words.  str.lower(), the sentence tokenizer, the word tokenizer and the *)
(* vectorizer's token pattern act on characters; they are given here by    *)
(* what they do to each word the model's texts are made of.                *)
(***************************************************************************)
PeriodWords ==
    {"home.", "see.", "today.", "him.", "day.", "store.", "yesterday.", "morning."}

Lower(w) == IF w = "I" THEN "i" ELSE w

WithoutPeriod(w) ==
    CASE w = "home."  -> "home"
      [] w = "see."   -> "see"
      [] w = "today." -> "today"
      [] w = "him."   -> "him"
      [] w = "day."   -> "day"
      [] w = "store." -> "store"
      [] w = "yesterday." -> "yesterday"
      [] w = "morning." -> "morning"
      [] OTHER        -> w

LowerText(text) == [x \in DOMAIN text |-> Lower(text[x])]

\* sent_tokenize: a sentence ends after a word that carries a full stop
RECURSIVE SentSplit(_, _)
SentSplit(text, cur) ==
    IF text = <<>>
    THEN IF cur = <<>> THEN <<>> ELSE <<cur>>
    ELSE IF Head(text) \in PeriodWords
         THEN <<Append(cur, Head(text))>> \o SentSplit(Tail(text), <<>>)
         ELSE SentSplit(Tail(text), Append(cur, Head(text)))

sent_tokenize(text) == SentSplit(text, <<>>)

\* word_tokenize: the full stop that ends a sentence becomes a token of its own
WordTokens(w) == IF w \in PeriodWords THEN <<WithoutPeriod(w), ".">> ELSE <<w>>

word_tokenize(text) == Flatten([x \in DOMAIN text |-> WordTokens(text[x])])

(***************************************************************************)
(* nltk stop-word lists and negation markers, restricted to the tokens of  *)
(* the model's texts.                                                      *)
(***************************************************************************)
StopWordsEnglish ==
    {"i", "was", "at", "not", "no", "the", "him", "all", "nor", "to", "in"}

StopWordsSpanish == {"no", "ni", "nada", "yo", "en", "estaba"}

\* variant: the language test never selects the Spanish list
StopWordsFor_English(lang) == IF lang = "sp" THEN StopWordsSpanish ELSE StopWordsEnglish

StopWordsFor(lang) == IF lang = "es" THEN StopWordsSpanish ELSE StopWordsEnglish

NegationWordsES ==
    <<"no", "nunca", "jamas", "ni", "tampoco", "nada", "nadie", "ninguno", "ninguna">>

NegationWordsEN ==
    <<"no", "not", "never", "none", "nobody", "nothing", "neither", "nor">>

\* variant: a language without a list of its own gets the Spanish markers
NegWordsFor_SpanishDefault(lang) ==
    IF lang = "en" THEN NegationWordsEN ELSE NegationWordsES

\* negation_words.get(self.language, negation_words['en'])
NegWordsFor(lang) == IF lang = "es" THEN NegationWordsES ELSE NegationWordsEN

(***************************************************************************)
(* State                                                                   *)
(***************************************************************************)
VARIABLES
    language,              \* self.language
    similarity_threshold,  \* self.similarity_threshold, in thousandths
    stop_words,            \* self.stop_words
    transcriptions,        \* the argument of detect_inconsistencies
    heap,                  \* the statement dicts, by identity (1..Len(heap))
    all_statements_by_speaker,  \* speaker -> interview id -> list of statements
    inconsistencies,       \* the records appended so far
    similar_pairs,         \* the Matcher's result for the current pair
    pc, s, i, j, k,        \* position in detect_inconsistencies and its loops
    result,                \* the returned dict
    log,                   \* the warnings given to logger.warning, in order
    previous,              \* what an earlier call on this detector returned
    vectorizer,            \* self.vectorizer: what its last fit left in it
    tasks                  \* the (speaker, interview pair) tasks handed out

vars == <<language, similarity_threshold, stop_words, transcriptions, heap,
          all_statements_by_speaker, inconsistencies, similar_pairs,
          pc, s, i, j, k, result, log, previous, vectorizer, tasks>>

NoResult == <<>>

\* the vectorizer as __init__ leaves it
NotFitted == <<>>

\* d[key] = val on a Python dict held as a record
\* variant: the value is written over a field the dict already has
SetItem_WrongKey(d, key, val) == [d EXCEPT !["start_timestamp"] = val]

SetItem(d, key, val) ==
    [x \in DOMAIN d \cup {key} |-> IF x = key THEN val ELSE d[x]]

(***************************************************************************)
(* _extract_statements_by_speaker                                          *)
(***************************************************************************)
\* variant: the count is off by one
AtLeastThreeWords_Two(sentence) == Len(sentence) >= 2

\* len(sentence.split()) >= 3
AtLeastThreeWords(sentence) == Len(sentence) >= 3

\* variant: the end time is copied from the start time
StatementsOf_EndFromStart(segment) ==
    LET sentences == SelectSeq(sent_tokenize(segment["text"]), AtLeastThreeWords)
    IN  [x \in DOMAIN sentences |->
            [text            |-> sentences[x],
             start_time      |-> segment["start_time"],
             end_time        |-> segment["start_time"],
             start_timestamp |-> segment["start_timestamp"],
             end_timestamp   |-> segment["end_timestamp"]]]

StatementsOf(segment) ==
    LET sentences == SelectSeq(sent_tokenize(segment["text"]), AtLeastThreeWords)
    IN  [x \in DOMAIN sentences |->
            [text            |-> sentences[x],
             start_time      |-> segment["start_time"],
             end_time        |-> segment["end_time"],
             start_timestamp |-> segment["start_timestamp"],
             end_timestamp   |-> segment["end_timestamp"]]]

\* variant: the label is looked up under a key no segment has
SpeakerOf_NoLabel(segment) ==
    IF "speker" \in DOMAIN segment THEN segment["speker"] ELSE "Unknown"

\* segment.get("speaker", "Unknown")
SpeakerOf(segment) ==
    IF "speaker" \in DOMAIN segment THEN segment["speaker"] ELSE "Unknown"

\* variant: only the presence of the key is tested
HasText_KeyOnly(segment) == "text" \in DOMAIN segment

\* not ("text" not in segment or not segment["text"])
HasText(segment) == "text" \in DOMAIN segment /\ segment["text"] # <<>>

RECURSIVE ExtractLoop(_, _)
ExtractLoop(transcript, statements_by_speaker) ==
    IF transcript = <<>>
    THEN statements_by_speaker
    ELSE LET segment == Head(transcript)
         IN  IF ~HasText(segment)
             THEN ExtractLoop(Tail(transcript), statements_by_speaker)
             ELSE LET who == SpeakerOf(segment)
                      old == GetOr(statements_by_speaker, who, <<>>)
                  IN  ExtractLoop(Tail(transcript),
                          Put(statements_by_speaker, who,
                              old \o StatementsOf(segment)))

_extract_statements_by_speaker(transcript) == ExtractLoop(transcript, <<>>)

(***************************************************************************)
(* Arithmetic on truncated thousandths                                     *)
(***************************************************************************)
\* floor(a * 10^digits / c) for 0 <= a <= c, by long division
RECURSIVE LongDiv(_, _, _, _)
LongDiv(r, c, digits, acc) ==
    IF digits = 0
    THEN acc
    ELSE LongDiv((r * 10) % c, c, digits - 1, acc * 10 + ((r * 10) \div c))

RECURSIVE ISqrtIn(_, _, _)
ISqrtIn(n, lo, hi) ==
    IF lo >= hi
    THEN lo
    ELSE LET mid == (lo + hi + 1) \div 2
         IN  IF mid * mid <= n THEN ISqrtIn(n, mid, hi) ELSE ISqrtIn(n, lo, mid - 1)

ISqrt(n) == ISqrtIn(n, 0, 1000)

(***************************************************************************)
(* self.vectorizer: TfidfVectorizer(stop_words, ngram_range=(1, 2),        *)
(* min_df=2, max_df=0.85), fit anew on the texts of each call              *)
(***************************************************************************)
\* lowercase, tokens of two or more word characters, stop words removed
IsVectorizerToken(tok) == Len(tok) >= 2 /\ tok \notin stop_words

VectorizerTokens(text) ==
    SelectSeq([x \in DOMAIN text |-> WithoutPeriod(Lower(text[x]))], IsVectorizerToken)

\* unigrams, then bigrams
Analyze(text) ==
    LET toks == VectorizerTokens(text)
    IN  toks \o [x \in 1..(Len(toks) - 1) |-> toks[x] \o " " \o toks[x + 1]]

TermCount(doc, term) == Cardinality({x \in DOMAIN doc : doc[x] = term})

DocFreq(docs, term) == Cardinality({d \in DOMAIN docs : term \in Range(docs[d])})

AllTerms(docs) == UNION {Range(docs[d]) : d \in DOMAIN docs}

\* _limit_features: min_df <= df <= max_df * n_doc
Vocabulary(docs) ==
    {term \in AllTerms(docs) :
        /\ DocFreq(docs, term) >= min_df
        /\ 100 * DocFreq(docs, term) <= max_df * Len(docs)}

\* variant: a term may appear in every document
FitFails_NoUpperLimit(docs) ==
    \/ AllTerms(docs) = {}
    \/ {term \in AllTerms(docs) : DocFreq(docs, term) >= min_df} = {}

\* fit_transform raises ValueError: empty vocabulary, max_df below min_df,
\* or no terms left after pruning
FitFails(docs) ==
    \/ AllTerms(docs) = {}
    \/ max_df * Len(docs) < 100 * min_df
    \/ Vocabulary(docs) = {}

\* smoothed idf, ln((1 + n) / (1 + df)) + 1, in tenths, for n <= 8 documents
IdfTable ==
    << <<10>>,
       <<14, 10>>,
       <<17, 13, 10>>,
       <<19, 15, 12, 10>>,
       <<21, 17, 14, 12, 10>>,
       <<23, 18, 16, 13, 12, 10>>,
       <<24, 20, 17, 15, 13, 11, 10>>,
       <<25, 21, 18, 16, 14, 13, 11, 10>> >>

Idf(n, df) == IdfTable[n][df]

RECURSIVE SumOver(_, _)
SumOver(set, f) ==
    IF set = {}
    THEN 0
    ELSE LET e == CHOOSE x \in set : TRUE
         IN  f[e] + SumOver(set \ {e}, f)

\* fit_transform: the tf-idf weight of every term of the vocabulary in every
\* document (rows before their l2 normalisation, which the cosine undoes)
TfidfMatrix(docs) ==
    LET voc == Vocabulary(docs)
        idf == [term \in voc |-> Idf(Len(docs), DocFreq(docs, term))]
    IN  [d \in DOMAIN docs |-> [term \in voc |-> TermCount(docs[d], term) * idf[term]]]

\* what a fit that succeeds leaves in the vectorizer: the vocabulary and
\* the idf of each of its terms
Fitted(docs) ==
    [term \in Vocabulary(docs) |-> Idf(Len(docs), DocFreq(docs, term))]

Dot(row_a, row_b) ==
    SumOver(DOMAIN row_a, [term \in DOMAIN row_a |-> row_a[term] * row_b[term]])

\* cosine_similarity of two rows of the tf-idf matrix (a zero row gives 0)
Cosine(row_a, row_b) ==
    LET ab == Dot(row_a, row_b)
        aa == Dot(row_a, row_a)
        bb == Dot(row_b, row_b)
    IN  IF aa = 0 \/ bb = 0
        THEN 0
        ELSE ISqrt(LongDiv((ab * ab) % (aa * bb), aa * bb, 6, (ab * ab) \div (aa * bb)))

(***************************************************************************)
(* The Matcher: _find_similar_statements and its fallback.  A statement is *)
(* a reference into the heap; indices are Python's, from 0.                *)
(***************************************************************************)
TextOf(stmt) == heap[stmt]["text"]

\* the (i, j) of "for i in range(n): for j in range(i + 1, n)", in order
RECURSIVE PairIndices(_, _, _)
PairIndices(a, b, n) ==
    IF a >= n
    THEN <<>>
    ELSE IF b >= n
         THEN PairIndices(a + 1, a + 2, n)
         ELSE <<<<a, b>>>> \o PairIndices(a, b + 1, n)

\* set(word_tokenize(text.lower())) - self.stop_words
WordSet(text) == Range(word_tokenize(LowerText(text))) \ stop_words

\* variant: the overlap is measured against the first statement only
Jaccard_OverFirst(words_i, words_j) ==
    (1000 * Cardinality(words_i \cap words_j)) \div Cardinality(words_i)

\* len(words_i.intersection(words_j)) / len(words_i.union(words_j))
Jaccard(words_i, words_j) ==
    (1000 * Cardinality(words_i \cap words_j)) \div Cardinality(words_i \cup words_j)

\* variant: a score equal to the threshold is not reported
ReportedSimple_Strict(similarity) == similarity > similarity_threshold

ReportedSimple(similarity) == similarity >= similarity_threshold

\* variant: a pair is passed over only when both word sets are empty
Skipped_BothEmpty(words_i, words_j) == words_i = {} /\ words_j = {}

\* if not words_i or not words_j: continue
Skipped(words_i, words_j) == words_i = {} \/ words_j = {}

_find_similar_statements_simple(statements_list) ==
    LET n == Len(statements_list)
        words(x) == WordSet(TextOf(statements_list[x + 1]))
        Kept(p) == /\ ~Skipped(words(p[1]), words(p[2]))
                   /\ ReportedSimple(Jaccard(words(p[1]), words(p[2])))
        pairs == SelectSeq(PairIndices(0, 1, n), Kept)
    IN  [x \in DOMAIN pairs |->
            <<pairs[x][1], pairs[x][2],
              Jaccard(words(pairs[x][1]), words(pairs[x][2]))>>]

\* variant: a score equal to the threshold is not reported
ReportedPrimary_Strict(similarity) == similarity > similarity_threshold

ReportedPrimary(similarity) == similarity >= similarity_threshold

\* the pair loop over cosine_similarity(tfidf_matrix)
PrimaryPairs(docs) ==
    LET tfidf_matrix == TfidfMatrix(docs)
        pairs == PairIndices(0, 1, Len(docs))
        cosine_sim == [x \in DOMAIN pairs |->
                          Cosine(tfidf_matrix[pairs[x][1] + 1], tfidf_matrix[pairs[x][2] + 1])]
        scored == [x \in DOMAIN pairs |-> <<pairs[x][1], pairs[x][2], cosine_sim[x]>>]
        Kept(tuple) == ReportedPrimary(tuple[3])
    IN  SelectSeq(scored, Kept)

\* the texts of the statements, as the vectorizer analyses them
DocsOf(statements_list) ==
    [x \in DOMAIN statements_list |-> Analyze(TextOf(statements_list[x]))]

\* variant: the guard lets a list of one statement through
TooFew_OffByOne(statements_list) == Len(statements_list) < 1

\* if len(statements_list) < 2: return []
TooFew(statements_list) == Len(statements_list) < 2

\* the fit is attempted and raises: the except branch is taken
VectorizationFails(statements_list) ==
    ~TooFew(statements_list) /\ FitFails(DocsOf(statements_list))

\* variant: a failed fit is swallowed and nothing is matched
_find_similar_statements_NoFallback(statements_list) ==
    IF TooFew(statements_list)
    THEN <<>>
    ELSE IF VectorizationFails(statements_list)
         THEN <<>>
         ELSE PrimaryPairs(DocsOf(statements_list))

_find_similar_statements(statements_list) ==
    IF TooFew(statements_list)
    THEN <<>>
    ELSE IF VectorizationFails(statements_list)
         THEN _find_similar_statements_simple(statements_list)
         ELSE PrimaryPairs(DocsOf(statements_list))

(***************************************************************************)
(* The Classifier: _detect_contradictions                                  *)
(***************************************************************************)
\* any(neg in word_tokenize(text.lower()) for neg in neg_words)
HasNegation(text) ==
    LET neg_words == NegWordsFor(language)
        tokens == Range(word_tokenize(LowerText(text)))
    IN  \E x \in DOMAIN neg_words : neg_words[x] \in tokens

\* variant: a negation on either side is taken for a contradiction
IsContradiction_Either(stmt1, stmt2) ==
    HasNegation(TextOf(stmt1)) \/ HasNegation(TextOf(stmt2))

IsContradiction(stmt1, stmt2) == HasNegation(TextOf(stmt1)) # HasNegation(TextOf(stmt2))

RECURSIVE _detect_contradictions(_)
_detect_contradictions(similar_statements) ==
    IF similar_statements = <<>>
    THEN <<>>
    ELSE LET pair == Head(similar_statements)
             rest == _detect_contradictions(Tail(similar_statements))
         IN  IF IsContradiction(pair[1], pair[2])
             THEN <<[statement1         |-> pair[1],
                     statement2         |-> pair[2],
                     similarity         |-> pair[3],
                     contradiction_type |-> "negation"]>> \o rest
             ELSE rest

(***************************************************************************)
(* Inputs: transcripts made of segments drawn from a pool of               *)
(* (speaker, text) entries, timed by their position                        *)
(***************************************************************************)
InterviewIds == <<"interview1", "interview2", "interview3", "interview4", "interview5">>

Timestamps == <<"00:00", "00:01", "00:02", "00:03", "00:04", "00:05", "00:06">>

TimedSegment(entry, pos) ==
    [x \in DOMAIN entry \cup {"start_time", "end_time", "start_timestamp", "end_timestamp"} |->
        CASE x = "start_time"      -> pos - 1
          [] x = "end_time"        -> pos
          [] x = "start_timestamp" -> Timestamps[pos]
          [] x = "end_timestamp"   -> Timestamps[pos + 1]
          [] OTHER                 -> entry[x]]

TranscriptsOfLen(pool, len) ==
    {[pos \in 1..len |-> TimedSegment(e[pos], pos)] : e \in [1..len -> pool]}

\* every list of n transcripts holding at most budget segments in all
RECURSIVE TranscriptLists(_, _, _)
TranscriptLists(pool, n, budget) ==
    IF n = 0
    THEN {<<>>}
    ELSE UNION {
            {<<first>> \o rest : first \in TranscriptsOfLen(pool, len),
                                 rest \in TranscriptLists(pool, n - 1, budget - len)}
            : len \in 0..budget}

TranscriptionsOver(pool) ==
    UNION {
        {[x \in 1..n |-> <<InterviewIds[x], ts[x]>>] : ts \in TranscriptLists(pool, n, MaxSegments)}
        : n \in 0..MaxInterviews}

Said(speaker, text) == [speaker |-> speaker, text |-> text]

Pool ==
    { Said("Speaker_1", <<"I", "saw", "him", "at", "home", "today.">>),
      Said("Speaker_1", <<"I", "see.", "I", "saw", "him.">>),
      Said("Speaker_1", <<"I", "was", "at", "no", "home", "today.">>),
      Said("Speaker_2", <<"I", "saw", "him", "at", "home", "today.">>) }

\* (language, similarity_threshold) given to __init__
Configs ==
    { <<LANGUAGE, INCONSISTENCY_SIMILARITY_THRESHOLD>>,
      <<"en", 500>> }

(***************************************************************************)
(* __init__, then the call of detect_inconsistencies(transcriptions)       *)
(***************************************************************************)
InitWith(inputs, configs) ==
    /\ \E c \in configs :
          /\ language = c[1]
          /\ similarity_threshold = c[2]
          /\ stop_words = StopWordsFor(c[1])
    /\ transcriptions \in inputs
    /\ heap = <<>>
    /\ all_statements_by_speaker = <<>>
    /\ inconsistencies = <<>>
    /\ similar_pairs = <<>>
    /\ pc = "check"
    /\ s = 1
    /\ i = 0
    /\ j = 0
    /\ k = 0
    /\ result = NoResult
    /\ log = <<>>
    /\ previous = NoResult
    /\ vectorizer = NotFitted
    /\ tasks = <<>>

InitOver(pool, configs) == InitWith(TranscriptionsOver(pool), configs)

Init == InitOver(Pool, Configs)

\* the sentences of the spec's scenarios A and B, said by one speaker
ScenarioPool ==
    { Said("Suspect", <<"I", "was", "at", "home", "all", "day">>),
      Said("Suspect", <<"I", "was", "not", "at", "home", "all", "day">>),
      Said("Suspect", <<"I", "saw", "him", "at", "the", "store">>),
      Said("Suspect", <<"I", "also", "saw", "him", "at", "the", "store">>) }

ScenarioConfigs ==
    { <<LANGUAGE, INCONSISTENCY_SIMILARITY_THRESHOLD>>,
      <<"en", INCONSISTENCY_SIMILARITY_THRESHOLD>> }

InitScenario == InitOver(ScenarioPool, ScenarioConfigs)

\* segments that lack a text, a speaker label or a sentence of three words
ExtractorPool ==
    { [speaker |-> "Speaker_1"],
      [speaker |-> "Speaker_1", text |-> <<>>],
      Said("Speaker_1", <<"I", "saw", "him", "at", "home", "today.">>),
      [text |-> <<"I", "see.", "I", "saw", "him.", "I", "saw", "him", "at", "home", "today.">>] }

ExtractorConfigs == { <<LANGUAGE, INCONSISTENCY_SIMILARITY_THRESHOLD>> }

InitExtractor == InitOver(ExtractorPool, ExtractorConfigs)

\* one speaker: a segment that yields no statement and two that yield one
RepeatPool ==
    { Said("Speaker_1", <<"I", "see.">>),
      Said("Speaker_1", <<"I", "saw", "him", "at", "home", "today.">>),
      Said("Speaker_1", <<"I", "was", "at", "no", "home", "today.">>) }

InitRepeat == InitOver(RepeatPool, Configs)

\* an English and a Spanish statement, each with and without a negation
\* marker that only its own language lists
LanguagePool ==
    { Said("Suspect", <<"I", "was", "at", "home", "all", "day">>),
      Said("Suspect", <<"I", "was", "not", "at", "home", "all", "day">>),
      Said("Suspect", <<"yo", "estaba", "en", "casa", "ayer", "tarde">>),
      Said("Suspect", <<"yo", "nunca", "estaba", "en", "casa", "ayer", "tarde">>) }

\* the default language, 'en', and a language the detector has no lists for
LanguageConfigs ==
    { <<LANGUAGE, INCONSISTENCY_SIMILARITY_THRESHOLD>>,
      <<"en", INCONSISTENCY_SIMILARITY_THRESHOLD>>,
      <<"fr", INCONSISTENCY_SIMILARITY_THRESHOLD>> }

\* interviews of at most one segment each
OneSegmentEach(pool) ==
    {ts \in TranscriptionsOver(pool) : \A x \in DOMAIN ts : Len(ts[x][2]) <= 1}

\* the statements of test_detect_inconsistencies
MockedPool ==
    { Said("Suspect", <<"I", "was", "at", "home", "all", "day.">>),
      Said("Suspect", <<"I", "was", "not", "at", "home", "yesterday.">>) }

\* setUp: InconsistencyDetector(language='es')
TestConfigs == { <<"es", INCONSISTENCY_SIMILARITY_THRESHOLD>> }

InitMocked == InitWith(OneSegmentEach(MockedPool), TestConfigs)

InitLanguage == InitWith(OneSegmentEach(LanguagePool), LanguageConfigs)

\* segments for three interviews of one segment each: one and two
\* statements of a speaker, one with a negation, and a second speaker
ThreePool ==
    { Said("Speaker_1", <<"I", "saw", "him", "at", "home", "today.">>),
      Said("Speaker_1", <<"I", "saw", "him.", "I", "saw", "him", "at", "home", "today.">>),
      Said("Speaker_1", <<"I", "was", "at", "no", "home", "today.">>),
      Said("Speaker_2", <<"I", "saw", "him", "at", "home", "today.">>) }

InitThree == InitWith(OneSegmentEach(ThreePool), Configs)

\* len(transcriptions) < 2: the early return
InsufficientInput ==
    /\ pc = "check"
    /\ Len(transcriptions) < 2
    /\ log' = Append(log, "Need at least 2 interviews to detect inconsistencies")
    /\ result' = [error |-> "Need at least 2 interviews to detect inconsistencies"]
    /\ pc' = "done"
    /\ UNCHANGED <<language, similarity_threshold, stop_words, vectorizer, tasks, transcriptions, heap,
                   all_statements_by_speaker, inconsistencies, similar_pairs, s, i, j, k,
                   previous>>

\* all_statements_by_speaker[speaker][interview_id] = statements, for each speaker
\* of one transcript; the new statement dicts get their identity on the heap
RECURSIVE MergeLoop(_, _, _, _)
MergeLoop(statements_by_speaker, interview_id, index, hp) ==
    IF statements_by_speaker = <<>>
    THEN <<index, hp>>
    ELSE LET who == Head(statements_by_speaker)[1]
             statements == Head(statements_by_speaker)[2]
             refs == [x \in DOMAIN statements |-> Len(hp) + x]
             known == GetOr(index, who, <<>>)
         IN  MergeLoop(Tail(statements_by_speaker), interview_id,
                       Put(index, who, Put(known, interview_id, refs)),
                       hp \o statements)

\* "for interview_id, transcript in transcriptions.items()"
RECURSIVE IndexLoop(_, _, _)
IndexLoop(items, index, hp) ==
    IF items = <<>>
    THEN <<index, hp>>
    ELSE LET interview_id == Head(items)[1]
             transcript == Head(items)[2]
             merged == MergeLoop(_extract_statements_by_speaker(transcript),
                                 interview_id, index, hp)
         IN  IndexLoop(Tail(items), merged[1], merged[2])

\* variant: the list of records outlives the call
ExtractStatements_KeepRecords ==
    /\ pc = "check"
    /\ Len(transcriptions) >= 2
    /\ LET built == IndexLoop(transcriptions, <<>>, <<>>)
       IN  /\ all_statements_by_speaker' = built[1]
           /\ heap' = built[2]
    /\ pc' = "speakers"
    /\ s' = 1
    /\ UNCHANGED <<language, similarity_threshold, stop_words, vectorizer, tasks, transcriptions,
                   inconsistencies, similar_pairs, i, j, k, result, log, previous>>

\* two or more transcripts: the SpeakerStatementIndex is built
ExtractStatements ==
    /\ pc = "check"
    /\ Len(transcriptions) >= 2
    /\ LET built == IndexLoop(transcriptions, <<>>, <<>>)
       IN  /\ all_statements_by_speaker' = built[1]
           /\ heap' = built[2]
    /\ inconsistencies' = <<>>
    /\ pc' = "speakers"
    /\ s' = 1
    /\ UNCHANGED <<language, similarity_threshold, stop_words, vectorizer, tasks, transcriptions,
                   similar_pairs, i, j, k, result, log, previous>>

\* the current round of "for speaker, interviews in all_statements_by_speaker.items()"
speaker == all_statements_by_speaker[s][1]
interviews == all_statements_by_speaker[s][2]
\* variant: the identifiers are taken latest first
interview_ids_Reversed == Reversed(Keys(interviews))

interview_ids == Keys(interviews)
id1 == interview_ids[i + 1]
id2 == interview_ids[j + 1]
combined_statements == Get(interviews, id1) \o Get(interviews, id2)

\* if len(interviews) < 2: continue
SkipSpeaker ==
    /\ pc = "speakers"
    /\ s <= Len(all_statements_by_speaker)
    /\ Len(interviews) < 2
    /\ s' = s + 1
    /\ UNCHANGED <<language, similarity_threshold, stop_words, vectorizer, tasks, transcriptions, heap,
                   all_statements_by_speaker, inconsistencies, similar_pairs, pc, i, j, k,
                   result, log, previous>>

\* combined_statements and the call of the Matcher, for the pair (i, j); the
\* Matcher warns when it takes the simpler approach
ComparePair(a, b) ==
    LET combined == Get(interviews, interview_ids[a + 1])
                        \o Get(interviews, interview_ids[b + 1])
    IN  /\ i' = a
        /\ j' = b
        /\ similar_pairs' = _find_similar_statements(combined)
        /\ log' = IF VectorizationFails(combined)
                  THEN Append(log, "TF-IDF vectorization failed, using simpler approach")
                  ELSE log
        /\ vectorizer' = IF TooFew(combined) \/ VectorizationFails(combined)
                         THEN vectorizer
                         ELSE Fitted(DocsOf(combined))
        /\ k' = 0
        /\ pc' = "process"
        /\ UNCHANGED <<language, similarity_threshold, stop_words, tasks, transcriptions, heap,
                       all_statements_by_speaker, inconsistencies, result, previous>>

\* what a stand-in for the Matcher (the test's MagicMock) may return for a
\* list of n statements: nothing, or one tuple of any two indices of the
\* list, with the test's score
MockReturns(n) ==
    {<<>>} \cup {<< <<a, b, 800>> >> : a \in 0..(n - 1), b \in 0..(n - 1)}

\* the call of a mocked _find_similar_statements, for the pair (i, j)
ComparePairMocked(a, b) ==
    LET combined == Get(interviews, interview_ids[a + 1])
                        \o Get(interviews, interview_ids[b + 1])
    IN  /\ i' = a
        /\ j' = b
        /\ similar_pairs' \in MockReturns(Len(combined))
        /\ k' = 0
        /\ pc' = "process"
        /\ UNCHANGED <<language, similarity_threshold, stop_words, vectorizer, tasks, transcriptions, heap,
                       all_statements_by_speaker, inconsistencies, result, log, previous>>

FirstPair ==
    /\ pc = "speakers"
    /\ s <= Len(all_statements_by_speaker)
    /\ Len(interviews) >= 2
    /\ ComparePair(0, 1)
    /\ UNCHANGED s

FirstPairMocked ==
    /\ pc = "speakers"
    /\ s <= Len(all_statements_by_speaker)
    /\ Len(interviews) >= 2
    /\ ComparePairMocked(0, 1)
    /\ UNCHANGED s

\* variant: the boundary itself counts as the first interview
SpansInterviews_OffByOne(idx1, idx2, n1) ==
    \/ (idx1 <= n1 /\ idx2 >= n1)
    \/ (idx2 <= n1 /\ idx1 >= n1)

\* variant: the two halves of the test joined the wrong way
SpansInterviews_Loose(idx1, idx2, n1) ==
    \/ idx1 < n1
    \/ idx2 >= n1

\* the pair is from different interviews: exactly one index is below n1
SpansInterviews(idx1, idx2, n1) ==
    \/ (idx1 < n1 /\ idx2 >= n1)
    \/ (idx2 < n1 /\ idx1 >= n1)

\* variant: a pair is dropped when one of its statements is already in a record
RecordsFor_Deduplicated(who, first, second, stmt1, stmt2, sim_score) ==
    LET contradictions == _detect_contradictions(<<<<stmt1, stmt2, sim_score>>>>)
        seen == UNION {{inconsistencies[x]["statement1"], inconsistencies[x]["statement2"]} :
                          x \in DOMAIN inconsistencies}
    IN  IF stmt1 \in seen \/ stmt2 \in seen
        THEN <<>>
        ELSE IF contradictions # <<>>
             THEN [x \in DOMAIN contradictions |->
                      [speaker            |-> who,
                       interview1         |-> first,
                       interview2         |-> second,
                       statement1         |-> contradictions[x]["statement1"],
                       statement2         |-> contradictions[x]["statement2"],
                       similarity         |-> sim_score,
                       contradiction_type |-> contradictions[x]["contradiction_type"]]]
             ELSE <<[speaker            |-> who,
                     interview1         |-> first,
                     interview2         |-> second,
                     statement1         |-> stmt1,
                     statement2         |-> stmt2,
                     similarity         |-> sim_score,
                     contradiction_type |-> "similar_statement"]>>

\* variant: every record is given the full score
RecordsFor_FullScore(who, first, second, stmt1, stmt2, sim_score) ==
    LET contradictions == _detect_contradictions(<<<<stmt1, stmt2, sim_score>>>>)
    IN  IF contradictions # <<>>
        THEN [x \in DOMAIN contradictions |->
                 [speaker            |-> who,
                  interview1         |-> first,
                  interview2         |-> second,
                  statement1         |-> contradictions[x]["statement1"],
                  statement2         |-> contradictions[x]["statement2"],
                  similarity         |-> 1000,
                  contradiction_type |-> contradictions[x]["contradiction_type"]]]
        ELSE <<[speaker            |-> who,
                interview1         |-> first,
                interview2         |-> second,
                statement1         |-> stmt1,
                statement2         |-> stmt2,
                similarity         |-> 1000,
                contradiction_type |-> "similar_statement"]>>

\* variant: a pair that is no contradiction is discarded
RecordsFor_DropSimilar(who, first, second, stmt1, stmt2, sim_score) ==
    LET contradictions == _detect_contradictions(<<<<stmt1, stmt2, sim_score>>>>)
    IN  [x \in DOMAIN contradictions |->
            [speaker            |-> who,
             interview1         |-> first,
             interview2         |-> second,
             statement1         |-> contradictions[x]["statement1"],
             statement2         |-> contradictions[x]["statement2"],
             similarity         |-> sim_score,
             contradiction_type |-> contradictions[x]["contradiction_type"]]]

\* the records one spanning pair adds: the Classifier's contradictions,
\* or else one similar statement
RecordsFor(who, first, second, stmt1, stmt2, sim_score) ==
    LET contradictions == _detect_contradictions(<<<<stmt1, stmt2, sim_score>>>>)
    IN  IF contradictions # <<>>
        THEN [x \in DOMAIN contradictions |->
                 [speaker            |-> who,
                  interview1         |-> first,
                  interview2         |-> second,
                  statement1         |-> contradictions[x]["statement1"],
                  statement2         |-> contradictions[x]["statement2"],
                  similarity         |-> sim_score,
                  contradiction_type |-> contradictions[x]["contradiction_type"]]]
        ELSE <<[speaker            |-> who,
                interview1         |-> first,
                interview2         |-> second,
                statement1         |-> stmt1,
                statement2         |-> stmt2,
                similarity         |-> sim_score,
                contradiction_type |-> "similar_statement"]>>

\* variant: the statements are the segments they were taken from, so that
\* a stamp shows in the caller's transcripts
InputSeenAfter_SharedDicts(stmt1, stmt2, first, second) ==
    [x \in DOMAIN transcriptions |->
        LET interview_id == transcriptions[x][1]
            transcript == transcriptions[x][2]
            SourceOf(segment, stmt) ==
                /\ "text" \in DOMAIN segment
                /\ segment["start_time"] = heap[stmt]["start_time"]
            Stamped(segment) ==
                IF \/ (interview_id = first /\ SourceOf(segment, stmt1))
                   \/ (interview_id = second /\ SourceOf(segment, stmt2))
                THEN SetItem(segment, "interview_id", interview_id)
                ELSE segment
        IN  <<interview_id, [y \in DOMAIN transcript |-> Stamped(transcript[y])]>>]

\* the caller's transcripts after stmt1 and stmt2 have been stamped: every
\* statement is a dict of its own, built by the extractor (lines 86-92),
\* and no segment is written to
InputSeenAfter(stmt1, stmt2, first, second) == transcriptions

\* variant: the statements are taken in the order of the Matcher's indices
Swapped_Never(idx1, n1) == FALSE

\* if idx1 >= len(interviews[id1]): stmt1, stmt2 = stmt2, stmt1
Swapped(idx1, n1) == idx1 >= n1

\* the body of "for idx1, idx2, sim_score in similar_pairs"
ProcessSimilarPair ==
    /\ pc = "process"
    /\ k < Len(similar_pairs)
    /\ LET idx1 == similar_pairs[k + 1][1]
           idx2 == similar_pairs[k + 1][2]
           sim_score == similar_pairs[k + 1][3]
           n1 == Len(Get(interviews, id1))
           swap == Swapped(idx1, n1)
           stmt1 == IF swap THEN combined_statements[idx2 + 1]
                            ELSE combined_statements[idx1 + 1]
           stmt2 == IF swap THEN combined_statements[idx1 + 1]
                            ELSE combined_statements[idx2 + 1]
           stamped1 == [heap EXCEPT ![stmt1] = SetItem(@, "interview_id", id1)]
           stamped2 == [stamped1 EXCEPT ![stmt2] = SetItem(@, "interview_id", id2)]
       IN  IF SpansInterviews(idx1, idx2, n1)
           THEN /\ heap' = stamped2
                /\ transcriptions' = InputSeenAfter(stmt1, stmt2, id1, id2)
                /\ inconsistencies' =
                      inconsistencies \o RecordsFor(speaker, id1, id2, stmt1, stmt2, sim_score)
           ELSE UNCHANGED <<heap, transcriptions, inconsistencies>>
    /\ k' = k + 1
    /\ UNCHANGED <<language, similarity_threshold, stop_words, vectorizer, tasks,
                   all_statements_by_speaker, similar_pairs, pc, s, i, j, result, log,
                   previous>>

\* the pair loops "for i in range(n): for j in range(i + 1, n)" move on
NextPair ==
    /\ pc = "process"
    /\ k = Len(similar_pairs)
    /\ \/ /\ j + 1 < Len(interview_ids)
          /\ ComparePair(i, j + 1)
          /\ UNCHANGED s
       \/ /\ j + 1 >= Len(interview_ids)
          /\ i + 2 < Len(interview_ids)
          /\ ComparePair(i + 1, i + 2)
          /\ UNCHANGED s
       \/ /\ j + 1 >= Len(interview_ids)
          /\ i + 2 >= Len(interview_ids)
          /\ pc' = "speakers"
          /\ s' = s + 1
          /\ UNCHANGED <<language, similarity_threshold, stop_words, vectorizer, tasks, transcriptions, heap,
                         all_statements_by_speaker, inconsistencies, similar_pairs, i, j, k,
                         result, log, previous>>

NextPairMocked ==
    /\ pc = "process"
    /\ k = Len(similar_pairs)
    /\ \/ /\ j + 1 < Len(interview_ids)
          /\ ComparePairMocked(i, j + 1)
          /\ UNCHANGED s
       \/ /\ j + 1 >= Len(interview_ids)
          /\ i + 2 < Len(interview_ids)
          /\ ComparePairMocked(i + 1, i + 2)
          /\ UNCHANGED s
       \/ /\ j + 1 >= Len(interview_ids)
          /\ i + 2 >= Len(interview_ids)
          /\ pc' = "speakers"
          /\ s' = s + 1
          /\ UNCHANGED <<language, similarity_threshold, stop_words, vectorizer, tasks, transcriptions, heap,
                         all_statements_by_speaker, inconsistencies, similar_pairs, i, j, k,
                         result, log, previous>>

\* variant: the bucket filters on a kind no record carries
IsNegation_OtherKind(inc) == inc["contradiction_type"] = "contradiction"

IsNegation(inc) == inc["contradiction_type"] = "negation"
IsSimilarStatement(inc) == inc["contradiction_type"] = "similar_statement"

\* group the inconsistencies by type and return
Return ==
    /\ pc = "speakers"
    /\ s > Len(all_statements_by_speaker)
    /\ result' = [total_inconsistencies |-> Len(inconsistencies),
                  contradictions        |-> SelectSeq(inconsistencies, IsNegation),
                  similar_statements    |-> SelectSeq(inconsistencies, IsSimilarStatement)]
    /\ pc' = "done"
    /\ UNCHANGED <<language, similarity_threshold, stop_words, vectorizer, tasks, transcriptions, heap,
                   all_statements_by_speaker, inconsistencies, similar_pairs, s, i, j, k,
                   log, previous>>

\* the report with the statement dicts it refers to written out
Inlined(inc) ==
    [inc EXCEPT !["statement1"] = heap[@], !["statement2"] = heap[@]]

Resolved(report) ==
    IF "error" \in DOMAIN report
    THEN report
    ELSE [total_inconsistencies |-> report["total_inconsistencies"],
          contradictions        |-> [x \in DOMAIN report["contradictions"] |->
                                        Inlined(report["contradictions"][x])],
          similar_statements    |-> [x \in DOMAIN report["similar_statements"] |->
                                        Inlined(report["similar_statements"][x])]]

\* detect_inconsistencies is called once more, on the same detector and with
\* the same transcriptions; the caller keeps what the first call returned
CallAgain ==
    /\ pc = "done"
    /\ previous = NoResult
    /\ previous' = Resolved(result)
    /\ result' = NoResult
    /\ pc' = "check"
    /\ UNCHANGED <<language, similarity_threshold, stop_words, vectorizer, tasks, transcriptions, heap,
                   all_statements_by_speaker, inconsistencies, similar_pairs, s, i, j, k,
                   log>>

Next ==
    \/ InsufficientInput
    \/ ExtractStatements
    \/ SkipSpeaker
    \/ FirstPair
    \/ ProcessSimilarPair
    \/ NextPair
    \/ Return

Spec == Init /\ [][Next]_vars

SpecScenario == InitScenario /\ [][Next]_vars

SpecExtractor == InitExtractor /\ [][Next]_vars

SpecLanguage == InitLanguage /\ [][Next]_vars

SpecThree == InitThree /\ [][Next]_vars

NextMocked ==
    \/ InsufficientInput
    \/ ExtractStatements
    \/ SkipSpeaker
    \/ FirstPairMocked
    \/ ProcessSimilarPair
    \/ NextPairMocked
    \/ Return

SpecMocked == InitMocked /\ [][NextMocked]_vars

(***************************************************************************)
(* The unit tests that call the Matcher's fallback and the Classifier      *)
(* directly (tests/test_analysis.py, TestInconsistencyDetector)            *)
(***************************************************************************)
\* the statements of test_find_similar_statements_simple
SimpleTexts ==
    << <<"I", "was", "at", "home", "all", "day", "yesterday.">>,
       <<"I", "stayed", "at", "home", "the", "entire", "day", "yesterday.">>,
       <<"I", "went", "to", "the", "store", "in", "the", "morning.">> >>

\* the statements of test_detect_contradictions, pair after pair
ContradictionTexts ==
    << <<"I", "was", "at", "home", "all", "day.">>,
       <<"I", "was", "not", "at", "home", "all", "day.">>,
       <<"I", "saw", "him", "at", "the", "store.">>,
       <<"I", "also", "saw", "him", "at", "the", "store.">> >>

TestTexts == Range(SimpleTexts) \cup Range(ContradictionTexts)

\* lists of up to MaxStatements statement dicts {"text": ...}
StatementLists ==
    UNION {[1..n -> {[text |-> txt] : txt \in TestTexts}] : n \in 0..MaxStatements}

\* setUp's detector, and one for English
UnitTestConfigs ==
    { <<"es", INCONSISTENCY_SIMILARITY_THRESHOLD>>,
      <<"en", INCONSISTENCY_SIMILARITY_THRESHOLD>> }

InitTestsOver(lists, configs) ==
    /\ \E c \in configs :
          /\ language = c[1]
          /\ similarity_threshold = c[2]
          /\ stop_words = StopWordsFor(c[1])
    /\ heap \in lists
    /\ transcriptions = <<>>
    /\ all_statements_by_speaker = <<>>
    /\ inconsistencies = <<>>
    /\ similar_pairs = <<>>
    /\ pc = "test"
    /\ s = 1
    /\ i = 0
    /\ j = 0
    /\ k = 0
    /\ result = NoResult
    /\ log = <<>>
    /\ previous = NoResult
    /\ vectorizer = NotFitted
    /\ tasks = <<>>

InitTests == InitTestsOver(StatementLists, UnitTestConfigs)

\* statements whose words are all stop words of one language, and two
\* that keep some words in both
EmptySetTexts ==
    { <<"yo", "estaba", "en">>,
      <<"I", "was", "at">>,
      <<"I", "was", "at", "home", "all", "day.">>,
      <<"yo", "estaba", "en", "casa", "ayer", "tarde">> }

EmptySetLists ==
    UNION {[1..n -> {[text |-> txt] : txt \in EmptySetTexts}] : n \in 0..MaxStatements}

\* the thresholds 0, the default and 1 of the range [0, 1]
ThresholdConfigs ==
    { <<"es", 0>>, <<"en", 0>>, <<"es", INCONSISTENCY_SIMILARITY_THRESHOLD>>, <<"en", 1000>> }

InitFallback == InitTestsOver(EmptySetLists, ThresholdConfigs)

\* result = self.detector._find_similar_statements_simple(statements)
test_find_similar_statements_simple ==
    /\ pc = "test"
    /\ similar_pairs' = _find_similar_statements_simple([x \in 1..Len(heap) |-> x])
    /\ pc' = "matched"
    /\ UNCHANGED <<language, similarity_threshold, stop_words, vectorizer, tasks, transcriptions, heap,
                   all_statements_by_speaker, inconsistencies, s, i, j, k, result, log,
                   previous>>

\* the statements two by two, with the scores 0.8, 0.9, ... of the test
PairedUp ==
    [m \in 1..(Len(heap) \div 2) |-> <<2 * m - 1, 2 * m, 700 + 100 * m>>]

\* result = self.detector._detect_contradictions(similar_statements)
test_detect_contradictions ==
    /\ pc = "test"
    /\ result' = _detect_contradictions(PairedUp)
    /\ pc' = "classified"
    /\ UNCHANGED <<language, similarity_threshold, stop_words, vectorizer, tasks, transcriptions, heap,
                   all_statements_by_speaker, inconsistencies, similar_pairs, s, i, j, k,
                   log, previous>>

NextTests ==
    \/ test_find_similar_statements_simple
    \/ test_detect_contradictions

SpecTests == InitTests /\ [][NextTests]_vars

SpecFallback == InitFallback /\ [][NextTests]_vars

NextRepeat ==
    \/ InsufficientInput
    \/ ExtractStatements
    \/ SkipSpeaker
    \/ FirstPair
    \/ ProcessSimilarPair
    \/ NextPair
    \/ Return
    \/ CallAgain

SpecRepeat == InitRepeat /\ [][NextRepeat]_vars

(***************************************************************************)
(* The iterations of the aggregation loop run as tasks, one per speaker    *)
(* and pair of interviews, on the one detector: each task runs lines       *)
(* 237-288 for its pair and keeps its records to itself until they are     *)
(* merged.  Two workers take the tasks in the order of the loops, each the *)
(* next one when it is free.  The tasks share the statement dicts and      *)
(* self.vectorizer; the fit and the transform inside fit_transform are two *)
(* steps, between which the other worker's task may fit.                   *)
(***************************************************************************)
Workers == {"worker_1", "worker_2"}

\* the task is the next to be taken and a worker is free to take it
NextToTake(t) ==
    /\ tasks[t]["pc"] = "ready"
    /\ \A u \in DOMAIN tasks : u < t => tasks[u]["pc"] # "ready"
    /\ Cardinality({u \in DOMAIN tasks : tasks[u]["pc"] = "fitted"}) < Cardinality(Workers)

TaskPool ==
    { Said("Speaker_1", <<"I", "saw", "him", "at", "home", "today.">>),
      Said("Speaker_1", <<"I", "saw", "him.", "I", "saw", "him", "at", "home", "today.">>),
      Said("Speaker_1", <<"I", "was", "at", "no", "home", "today.">>) }

InitTasks == InitWith(OneSegmentEach(TaskPool), ExtractorConfigs)

\* the vectorizer keeps its terms sorted; the terms of TaskPool, in order
TermsInOrder ==
    <<"at", "at home", "him", "him at", "home", "home today",
      "saw", "saw him", "today", "was", "was at">>

InOrder(terms) ==
    LET Among(term) == term \in terms
    IN  SelectSeq(TermsInOrder, Among)

\* variant: the transform never finds a fit it can use
TransformRaises_Always(docs, fitted) == TRUE

\* the transform multiplies the counts, one column per term of the texts,
\* by the idf the vectorizer holds: it raises when the two differ in length
TransformRaises(docs, fitted) ==
    Cardinality(Vocabulary(docs)) # Cardinality(DOMAIN fitted)

\* the weights the transform gives: the idf is applied column by column
Transformed(docs, fitted) ==
    LET voc == Vocabulary(docs)
        columns == InOrder(voc)
        idf_ == InOrder(DOMAIN fitted)
        ColumnOf(term) == CHOOSE c \in DOMAIN columns : columns[c] = term
    IN  [d \in DOMAIN docs |->
            [term \in voc |-> TermCount(docs[d], term) * fitted[idf_[ColumnOf(term)]]]]

\* the pair loop over cosine_similarity(tfidf_matrix)
CosinePairs(tfidf_matrix) ==
    LET pairs == PairIndices(0, 1, Len(tfidf_matrix))
        scored == [x \in DOMAIN pairs |->
                      <<pairs[x][1], pairs[x][2],
                        Cosine(tfidf_matrix[pairs[x][1] + 1], tfidf_matrix[pairs[x][2] + 1])>>]
        Kept(tuple) == ReportedPrimary(tuple[3])
    IN  SelectSeq(scored, Kept)

\* one task for every (i, j) the pair loops visit, speaker after speaker
TasksOf(index) ==
    Flatten([sp \in DOMAIN index |->
                LET pairs == PairIndices(0, 1, Len(index[sp][2]))
                IN  [x \in DOMAIN pairs |->
                        [s |-> sp, i |-> pairs[x][1], j |-> pairs[x][2],
                         pc |-> "ready", records |-> <<>>]]])

InterviewsOfTask(task) == all_statements_by_speaker[task["s"]][2]
FirstOfTask(task) == Keys(InterviewsOfTask(task))[task["i"] + 1]
SecondOfTask(task) == Keys(InterviewsOfTask(task))[task["j"] + 1]
CombinedOfTask(task) ==
    Get(InterviewsOfTask(task), FirstOfTask(task))
        \o Get(InterviewsOfTask(task), SecondOfTask(task))

\* "for idx1, idx2, sim_score in similar_pairs" for one task: the statement
\* dicts as stamped and the records made, from acc = <<dicts, records>>
RECURSIVE Processed(_, _, _, _, _, _, _)
Processed(similar, combined, n1, who, first, second, acc) ==
    IF similar = <<>>
    THEN acc
    ELSE LET idx1 == Head(similar)[1]
             idx2 == Head(similar)[2]
             sim_score == Head(similar)[3]
             swap == Swapped(idx1, n1)
             stmt1 == IF swap THEN combined[idx2 + 1] ELSE combined[idx1 + 1]
             stmt2 == IF swap THEN combined[idx1 + 1] ELSE combined[idx2 + 1]
             stamped1 == [acc[1] EXCEPT ![stmt1] = SetItem(@, "interview_id", first)]
             stamped2 == [stamped1 EXCEPT ![stmt2] = SetItem(@, "interview_id", second)]
         IN  IF SpansInterviews(idx1, idx2, n1)
             THEN Processed(Tail(similar), combined, n1, who, first, second,
                            <<stamped2,
                              acc[2] \o RecordsFor(who, first, second, stmt1, stmt2, sim_score)>>)
             ELSE Processed(Tail(similar), combined, n1, who, first, second, acc)

ProcessedBy(task, similar) ==
    Processed(similar, CombinedOfTask(task),
              Len(Get(InterviewsOfTask(task), FirstOfTask(task))),
              all_statements_by_speaker[task["s"]][1],
              FirstOfTask(task), SecondOfTask(task), <<heap, <<>>>>)

\* the tasks are handed out once the index is built
Distribute ==
    /\ pc = "speakers"
    /\ s = 1
    /\ s <= Len(all_statements_by_speaker)
    /\ tasks' = TasksOf(all_statements_by_speaker)
    /\ pc' = "tasks"
    /\ UNCHANGED <<language, similarity_threshold, stop_words, vectorizer, transcriptions,
                   heap, all_statements_by_speaker, inconsistencies, similar_pairs, s, i, j,
                   k, result, log, previous>>

\* a task's call of the Matcher gets as far as a fit that succeeds
Fit ==
    /\ pc = "tasks"
    /\ \E t \in DOMAIN tasks :
          /\ NextToTake(t)
          /\ ~TooFew(CombinedOfTask(tasks[t]))
          /\ ~VectorizationFails(CombinedOfTask(tasks[t]))
          /\ vectorizer' = Fitted(DocsOf(CombinedOfTask(tasks[t])))
          /\ tasks' = [tasks EXCEPT ![t]["pc"] = "fitted"]
    /\ UNCHANGED <<language, similarity_threshold, stop_words, transcriptions, heap,
                   all_statements_by_speaker, inconsistencies, similar_pairs, pc, s, i, j,
                   k, result, log, previous>>

\* the rest of the task: the transform with what the vectorizer holds now
\* (the except branch if it raises), then the loop over the similar pairs
Transform ==
    /\ pc = "tasks"
    /\ \E t \in DOMAIN tasks :
          /\ tasks[t]["pc"] = "fitted"
          /\ LET combined == CombinedOfTask(tasks[t])
                 raises == TransformRaises(DocsOf(combined), vectorizer)
                 similar == IF raises
                            THEN _find_similar_statements_simple(combined)
                            ELSE CosinePairs(Transformed(DocsOf(combined), vectorizer))
                 after == ProcessedBy(tasks[t], similar)
             IN  /\ log' = IF raises
                           THEN Append(log, "TF-IDF vectorization failed, using simpler approach")
                           ELSE log
                 /\ heap' = after[1]
                 /\ tasks' = [tasks EXCEPT ![t]["pc"] = "done", ![t]["records"] = after[2]]
    /\ UNCHANGED <<language, similarity_threshold, stop_words, vectorizer, transcriptions,
                   all_statements_by_speaker, inconsistencies, similar_pairs, pc, s, i, j,
                   k, result, previous>>

\* a task whose call of the Matcher returns without a fit: too few
\* statements, or the fit raises
Match ==
    /\ pc = "tasks"
    /\ \E t \in DOMAIN tasks :
          /\ NextToTake(t)
          /\ LET combined == CombinedOfTask(tasks[t])
                 after == ProcessedBy(tasks[t], _find_similar_statements(combined))
             IN  /\ TooFew(combined) \/ VectorizationFails(combined)
                 /\ log' = IF VectorizationFails(combined)
                           THEN Append(log, "TF-IDF vectorization failed, using simpler approach")
                           ELSE log
                 /\ heap' = after[1]
                 /\ tasks' = [tasks EXCEPT ![t]["pc"] = "done", ![t]["records"] = after[2]]
    /\ UNCHANGED <<language, similarity_threshold, stop_words, vectorizer, transcriptions,
                   all_statements_by_speaker, inconsistencies, similar_pairs, pc, s, i, j,
                   k, result, previous>>

\* the record lists of the tasks are merged, in the order of the loops
Merge ==
    /\ pc = "tasks"
    /\ \A t \in DOMAIN tasks : tasks[t]["pc"] = "done"
    /\ inconsistencies' = Flatten([t \in DOMAIN tasks |-> tasks[t]["records"]])
    /\ s' = Len(all_statements_by_speaker) + 1
    /\ pc' = "speakers"
    /\ UNCHANGED <<language, similarity_threshold, stop_words, vectorizer, tasks,
                   transcriptions, heap, all_statements_by_speaker, similar_pairs, i, j, k,
                   result, log, previous>>

NextTasks ==
    \/ InsufficientInput
    \/ ExtractStatements
    \/ Distribute
    \/ Fit
    \/ Transform
    \/ Match
    \/ Merge
    \/ Return

SpecTasks == InitTasks /\ [][NextTasks]_vars

(***************************************************************************)
(* Properties                                                              *)
(***************************************************************************)
Records == Range(inconsistencies)

\* the Matcher's tuple being processed, and the boundary of the combined list
Processing == pc = "process" /\ k < Len(similar_pairs)
Boundary == Len(Get(interviews, id1))
BothSameSide(tuple) ==
    \/ (tuple[1] < Boundary /\ tuple[2] < Boundary)
    \/ (tuple[1] >= Boundary /\ tuple[2] >= Boundary)

\* C1: every emitted record has interview1 # interview2, and processing a
\* matched pair whose two indices lie on the same side of the boundary n1
\* adds no record.
C1_NoSameInterviewRecord ==
    /\ [](\A r \in Records : r["interview1"] # r["interview2"])
    /\ [][(Processing /\ BothSameSide(similar_pairs[k + 1]))
            => inconsistencies' = inconsistencies]_vars

\* a same-interview match has just been processed while records exist
C1_Witness ==
    /\ pc = "process"
    /\ k >= 1
    /\ BothSameSide(similar_pairs[k])
    /\ inconsistencies # <<>>

\* C2: processing a matched pair that spans the two interviews appends
\* exactly one record, of kind "negation" if the Classifier reports a
\* contradiction for the pair and of kind "similar_statement" otherwise.
C2_OneRecordPerSpanningPair ==
    [][(Processing /\ ~BothSameSide(similar_pairs[k + 1]))
        => LET tuple == similar_pairs[k + 1]
               a == combined_statements[tuple[1] + 1]
               b == combined_statements[tuple[2] + 1]
               reported == _detect_contradictions(<<<<a, b, tuple[3]>>>>) # <<>>
           IN  /\ Len(inconsistencies') = Len(inconsistencies) + 1
               /\ SubSeq(inconsistencies', 1, Len(inconsistencies)) = inconsistencies
               /\ inconsistencies'[Len(inconsistencies')]["contradiction_type"] =
                     IF reported THEN "negation" ELSE "similar_statement"]_vars

\* records of both kinds have been emitted for spanning pairs
C2_Witness ==
    /\ pc = "process"
    /\ k = Len(similar_pairs)
    /\ \E r1, r2 \in Records :
          /\ r1["contradiction_type"] = "negation"
          /\ r2["contradiction_type"] = "similar_statement"

\* the negation markers of the configured language
MarkersOf(lang) ==
    CASE lang = "es" -> {"no", "nunca", "jamas", "ni", "tampoco", "nada", "nadie",
                         "ninguno", "ninguna"}
      [] OTHER       -> {"no", "not", "never", "none", "nobody", "nothing", "neither",
                         "nor"}

ContainsMarker(stmt) ==
    Range(word_tokenize(LowerText(TextOf(stmt)))) \cap MarkersOf(language) # {}

Count(seq, e) == Cardinality({x \in DOMAIN seq : seq[x] = e})

\* C4: in the report for two or more transcripts the two buckets partition
\* the emitted records by kind, and total_inconsistencies is the sum of the
\* buckets' lengths.
C4_BucketsPartitionRecords ==
    (pc = "done" /\ Len(transcriptions) >= 2) =>
        /\ result["total_inconsistencies"] =
              Len(result["contradictions"]) + Len(result["similar_statements"])
        /\ result["total_inconsistencies"] = Len(inconsistencies)
        /\ \A r \in Records :
              Count(result["contradictions"], r) + Count(result["similar_statements"], r)
                 = Count(inconsistencies, r)
        /\ \A r \in Range(result["contradictions"]) :
              r \in Records /\ r["contradiction_type"] = "negation"
        /\ \A r \in Range(result["similar_statements"]) :
              r \in Records /\ r["contradiction_type"] = "similar_statement"

\* a report with records in both buckets
C4_Witness ==
    /\ pc = "done"
    /\ Len(transcriptions) >= 2
    /\ result["contradictions"] # <<>>
    /\ result["similar_statements"] # <<>>

\* C5: with fewer than 2 transcripts the returned report carries zero counts
\* (total_inconsistencies = 0, both buckets empty) and an explanatory status.
C5_InsufficientInputReport ==
    (pc = "done" /\ Len(transcriptions) < 2) =>
        /\ "error" \in DOMAIN result
        /\ "total_inconsistencies" \in DOMAIN result
        /\ result["total_inconsistencies"] = 0
        /\ "contradictions" \in DOMAIN result
        /\ result["contradictions"] = <<>>
        /\ "similar_statements" \in DOMAIN result
        /\ result["similar_statements"] = <<>>

\* vocabulary degeneracy: no term of the list is in at least 2 and at most
\* 85% of its statements
Degenerate(statements_list) ==
    LET docs == DocsOf(statements_list)
    IN  ~ \E term \in AllTerms(docs) :
            LET df == Cardinality({d \in DOMAIN docs : term \in Range(docs[d])})
            IN  df >= 2 /\ 100 * df <= 85 * Len(docs)

\* the Matcher has just returned for a list of two or more statements
Matched == pc = "process" /\ k = 0 /\ Len(combined_statements) >= 2

C7_FallbackOnDegeneracy ==
    (Matched /\ Degenerate(combined_statements)) =>
        similar_pairs = _find_similar_statements_simple(combined_statements)

\* three statements whose terms are all pruned, matched by the fallback
C7_Witness ==
    /\ Matched
    /\ Len(combined_statements) >= 3
    /\ Degenerate(combined_statements)
    /\ similar_pairs # <<>>

DefaultConfiguration ==
    language = LANGUAGE /\ similarity_threshold = INCONSISTENCY_SIMILARITY_THRESHOLD

OneSegment(text) == <<TimedSegment(Said("Suspect", text), 1)>>

TwoInterviews(text1, text2) ==
    transcriptions = << <<InterviewIds[1], OneSegment(text1)>>,
                        <<InterviewIds[2], OneSegment(text2)>> >>

ScenarioA ==
    TwoInterviews(<<"I", "was", "at", "home", "all", "day">>,
                  <<"I", "was", "not", "at", "home", "all", "day">>)

\* C8: Scenario A under the default configuration yields exactly one
\* record, a contradiction with similarity >= 0.7, and no similar statement.
C8_ScenarioA ==
    (pc = "done" /\ ScenarioA /\ DefaultConfiguration) =>
        /\ result["total_inconsistencies"] = 1
        /\ Len(result["contradictions"]) = 1
        /\ result["contradictions"][1]["similarity"] >= 700
        /\ result["similar_statements"] = <<>>

ScenarioB ==
    \/ TwoInterviews(<<"I", "saw", "him", "at", "the", "store">>,
                     <<"I", "also", "saw", "him", "at", "the", "store">>)
    \/ TwoInterviews(<<"I", "also", "saw", "him", "at", "the", "store">>,
                     <<"I", "saw", "him", "at", "the", "store">>)

\* C9: Scenario B yields exactly one record, a similar statement, and no
\* contradiction (detector with the default configuration).
C9_ScenarioB ==
    (pc = "done" /\ ScenarioB /\ DefaultConfiguration) =>
        /\ result["total_inconsistencies"] = 1
        /\ Len(result["similar_statements"]) = 1
        /\ result["contradictions"] = <<>>

C9_Witness ==
    /\ pc = "done"
    /\ ScenarioB
    /\ DefaultConfiguration
    /\ Len(result["similar_statements"]) = 1

\* the interviews in which a speaker label occurs
LabelOf(segment) == IF "speaker" \in DOMAIN segment THEN segment["speaker"] ELSE "Unknown"
InterviewsWith(label) ==
    {x \in DOMAIN transcriptions :
        \E y \in DOMAIN transcriptions[x][2] : LabelOf(transcriptions[x][2][y]) = label}
Labels ==
    UNION {{LabelOf(transcriptions[x][2][y]) : y \in DOMAIN transcriptions[x][2]}
           : x \in DOMAIN transcriptions}

\* C10: no record belongs to a speaker who appears in fewer than two of the
\* interviews; when no label is shared by two interviews the report is
\* empty with total_inconsistencies = 0.
C10_SingleInterviewSpeaker ==
    /\ \A r \in Records :
          /\ Cardinality(InterviewsWith(r["speaker"])) >= 2
          /\ {r["interview1"], r["interview2"]}
                \subseteq {transcriptions[x][1] : x \in InterviewsWith(r["speaker"])}
    /\ (pc = "done" /\ Len(transcriptions) >= 2
          /\ \A label \in Labels : Cardinality(InterviewsWith(label)) < 2) =>
          /\ result["total_inconsistencies"] = 0
          /\ result["contradictions"] = <<>>
          /\ result["similar_statements"] = <<>>

\* a report with records, although one speaker made statements in one
\* interview only
C10_Witness ==
    /\ pc = "done"
    /\ Len(transcriptions) >= 2
    /\ result["total_inconsistencies"] >= 1
    /\ \E x \in DOMAIN all_statements_by_speaker :
          /\ Len(all_statements_by_speaker[x][2]) = 1
          /\ all_statements_by_speaker[x][2][1][2] # <<>>

\* C11: the Matcher called with fewer than 2 statements returns an empty
\* list and takes neither the vector path nor the simpler approach (no
\* warning is logged); while the pair of a combined list of 0 or 1
\* statements is processed no record is appended.
C11_TooFewStatements ==
    /\ [][(pc' = "process" /\ k' = 0 /\ Len(combined_statements') < 2)
            => (similar_pairs' = <<>> /\ log' = log)]_vars
    /\ [][(pc = "process" /\ Len(combined_statements) < 2)
            => inconsistencies' = inconsistencies]_vars

\* the Matcher has returned for a combined list of exactly one statement
C11_Witness ==
    /\ pc = "process"
    /\ Len(combined_statements) = 1
    /\ similar_pairs = <<>>
    /\ k = 0

\* C12: a second call of detect_inconsistencies on the same detector with
\* the same transcriptions returns the same report as the first: the same
\* records with the same kinds, scores and statements, and the same counts.
C12_Idempotent ==
    (pc = "done" /\ previous # NoResult) => Resolved(result) = previous

\* the second call has returned a report that holds a record
C12_Witness ==
    /\ pc = "done"
    /\ previous # NoResult
    /\ "total_inconsistencies" \in DOMAIN result
    /\ result["total_inconsistencies"] >= 1

\* C13: whatever the transcriptions, the call returns a report that holds
\* total_inconsistencies, contradictions and similar_statements.
C13_AlwaysReport ==
    pc = "done" =>
        {"total_inconsistencies", "contradictions", "similar_statements"}
            \subseteq DOMAIN result

\* the segments of the transcriptions, the statements filed for a speaker
\* label in an interview, and the state in which the Extractor has run
SegmentAt(x, y) == transcriptions[x][2][y]
TextPresent(segment) == "text" \in DOMAIN segment /\ Len(segment["text"]) > 0
Filed(label, x) ==
    IF /\ HasKey(all_statements_by_speaker, label)
       /\ HasKey(Get(all_statements_by_speaker, label), transcriptions[x][1])
    THEN [y \in DOMAIN Get(Get(all_statements_by_speaker, label), transcriptions[x][1]) |->
             heap[Get(Get(all_statements_by_speaker, label), transcriptions[x][1])[y]]]
    ELSE <<>>
Extracted == pc # "check" /\ Len(transcriptions) >= 2

\* C14: every statement the Extractor produced has at least 3 words, and
\* every sentence of 3 or more words of a segment with non-empty text is
\* among the statements filed for that segment's speaker and interview.
C14_AtLeastThreeTokens ==
    Extracted =>
        /\ \A h \in DOMAIN heap : Len(heap[h]["text"]) >= 3
        /\ \A x \in DOMAIN transcriptions : \A y \in DOMAIN transcriptions[x][2] :
              TextPresent(SegmentAt(x, y)) =>
                  \A sentence \in Range(sent_tokenize(SegmentAt(x, y)["text"])) :
                      Len(sentence) >= 3 =>
                          \E st \in Range(Filed(LabelOf(SegmentAt(x, y)), x)) :
                              /\ st["text"] = sentence
                              /\ st["start_time"] = SegmentAt(x, y)["start_time"]

\* a segment with a sentence of 2 words and a sentence of 3 has been extracted
C14_Witness ==
    /\ Extracted
    /\ \E x \in DOMAIN transcriptions : \E y \in DOMAIN transcriptions[x][2] :
          /\ TextPresent(SegmentAt(x, y))
          /\ \E short, long \in Range(sent_tokenize(SegmentAt(x, y)["text"])) :
                Len(short) = 2 /\ Len(long) = 3
    /\ heap # <<>>

\* C15: a segment whose text is missing or empty is skipped: it opens no
\* speaker bucket and no statement derives from it; every statement filed
\* under a label derives from a segment with text that carries that label,
\* or carries none when the label is "Unknown"; and the statements of a
\* segment with text but no speaker label are filed under "Unknown".
C15_SkippedAndUnknown ==
    Extracted =>
        /\ \A b \in DOMAIN all_statements_by_speaker :
              \E x \in DOMAIN transcriptions : \E y \in DOMAIN transcriptions[x][2] :
                  /\ TextPresent(SegmentAt(x, y))
                  /\ LabelOf(SegmentAt(x, y)) = all_statements_by_speaker[b][1]
        /\ \A b \in DOMAIN all_statements_by_speaker : \A x \in DOMAIN transcriptions :
              \A st \in Range(Filed(all_statements_by_speaker[b][1], x)) :
                  \E y \in DOMAIN transcriptions[x][2] :
                      /\ TextPresent(SegmentAt(x, y))
                      /\ LabelOf(SegmentAt(x, y)) = all_statements_by_speaker[b][1]
                      /\ SegmentAt(x, y)["start_time"] = st["start_time"]
                      /\ st["text"] \in Range(sent_tokenize(SegmentAt(x, y)["text"]))
        /\ \A x \in DOMAIN transcriptions : \A y \in DOMAIN transcriptions[x][2] :
              (TextPresent(SegmentAt(x, y)) /\ "speaker" \notin DOMAIN SegmentAt(x, y)) =>
                  \A sentence \in Range(sent_tokenize(SegmentAt(x, y)["text"])) :
                      Len(sentence) >= 3 =>
                          \E st \in Range(Filed("Unknown", x)) :
                              /\ st["text"] = sentence
                              /\ st["start_time"] = SegmentAt(x, y)["start_time"]

\* segments without a text key, with an empty text and without a speaker
\* label have been through the Extractor, which filed statements under "Unknown"
C15_Witness ==
    /\ Extracted
    /\ \E x \in DOMAIN transcriptions : \E y \in DOMAIN transcriptions[x][2] :
          "text" \notin DOMAIN SegmentAt(x, y)
    /\ \E x \in DOMAIN transcriptions : \E y \in DOMAIN transcriptions[x][2] :
          "text" \in DOMAIN SegmentAt(x, y) /\ SegmentAt(x, y)["text"] = <<>>
    /\ \E x \in DOMAIN transcriptions : Filed("Unknown", x) # <<>>

\* the statements a transcript should yield for a label: segment by
\* segment, sentence by sentence, each with its segment's timing fields
TimingFields == {"start_time", "end_time", "start_timestamp", "end_timestamp"}
ExpectedOf(segment, label) ==
    IF TextPresent(segment) /\ LabelOf(segment) = label
    THEN LET kept == SelectSeq(sent_tokenize(segment["text"]), AtLeastThreeWords)
         IN  [z \in DOMAIN kept |->
                 [f \in TimingFields \cup {"text"} |->
                     IF f = "text" THEN kept[z] ELSE segment[f]]]
    ELSE <<>>
Expected(label, x) ==
    Flatten([y \in DOMAIN transcriptions[x][2] |-> ExpectedOf(SegmentAt(x, y), label)])
WithoutStamp(st) == [f \in TimingFields \cup {"text"} |-> st[f]]

\* C16: every statement carries its segment's start_time, end_time,
\* start_timestamp and end_timestamp unchanged, and each speaker's list
\* holds the statements in segment order, then sentence order.
C16_TimingAndOrder ==
    Extracted =>
        \A b \in DOMAIN all_statements_by_speaker : \A x \in DOMAIN transcriptions :
            LET filed == Filed(all_statements_by_speaker[b][1], x)
            IN  [z \in DOMAIN filed |-> WithoutStamp(filed[z])]
                    = Expected(all_statements_by_speaker[b][1], x)

\* one speaker's list holds two statements of one segment, followed by a
\* statement of a later segment
C16_Witness ==
    /\ Extracted
    /\ \E b \in DOMAIN all_statements_by_speaker : \E x \in DOMAIN transcriptions :
          LET filed == Filed(all_statements_by_speaker[b][1], x)
          IN  /\ Len(filed) >= 3
              /\ filed[1]["start_time"] = filed[2]["start_time"]
              /\ filed[1]["text"] # filed[2]["text"]
              /\ filed[2]["start_time"] < filed[3]["start_time"]

\* the record is a contradiction exactly when one of its two statements
\* holds a negation marker of the configured language
KindFollowsMarkers(r) ==
    (r["contradiction_type"] = "negation")
        <=> (ContainsMarker(r["statement1"]) # ContainsMarker(r["statement2"]))

CrossesBoundary(tuple) ==
    \/ (tuple[1] < Boundary /\ tuple[2] >= Boundary)
    \/ (tuple[2] < Boundary /\ tuple[1] >= Boundary)

\* C20: for two or more transcripts, whatever tuples of indices of the
\* combined list the Matcher returns, a tuple with two equal indices
\* included, the call returns a result that holds total_inconsistencies,
\* contradictions and similar_statements, and processing a tuple that does
\* not span the boundary adds no record.
C20_AnyMatcherResult ==
    /\ [](pc = "done" /\ Len(transcriptions) >= 2 =>
            {"total_inconsistencies", "contradictions", "similar_statements"}
                \subseteq DOMAIN result)
    /\ [][(Processing /\ ~CrossesBoundary(similar_pairs[k + 1]))
            => inconsistencies' = inconsistencies]_vars

\* the test's case: two interviews of one statement each, the Matcher's
\* stand-in returned (0, 0, 0.8) and the call has returned an empty report
C20_Witness ==
    /\ pc = "done"
    /\ Len(transcriptions) = 2
    /\ Len(heap) = 2
    /\ similar_pairs = << <<0, 0, 800>> >>
    /\ result["total_inconsistencies"] = 0

\* the texts of the statements a test passed in
TextsGiven == [x \in DOMAIN heap |-> heap[x]["text"]]

\* C18: the fallback matcher of a detector with the default threshold,
\* given the three statements of test_find_similar_statements_simple,
\* returns exactly one tuple, for the indices (0, 1), with a score above 0.3.
C18_SimpleMatcherTest ==
    (/\ pc = "matched"
     /\ similarity_threshold = INCONSISTENCY_SIMILARITY_THRESHOLD
     /\ TextsGiven = SimpleTexts) =>
        /\ Len(similar_pairs) = 1
        /\ similar_pairs[1][1] = 0
        /\ similar_pairs[1][2] = 1
        /\ similar_pairs[1][3] > 300

\* C19: a detector of language 'es', given the two pairs of
\* test_detect_contradictions (one differing by "not", one by "also"),
\* returns exactly one contradiction, of type 'negation', for the first pair.
C19_ClassifierTest ==
    (/\ pc = "classified"
     /\ language = "es"
     /\ TextsGiven = ContradictionTexts) =>
        /\ Len(result) = 1
        /\ result[1]["contradiction_type"] = "negation"
        /\ result[1]["statement1"] = 1
        /\ result[1]["statement2"] = 2

\* the list a test passed in, as references
GivenList == [x \in 1..Len(heap) |-> x]

\* C22: the fallback similarity of two statements with non-empty word sets
\* is the same in both orders, and the fallback matcher reports, for the
\* list given backwards, the same pairs with the same scores.
C22_JaccardSymmetric ==
    pc = "matched" =>
        LET n == Len(heap)
            words(x) == WordSet(TextOf(x))
            mirrored == _find_similar_statements_simple(Reversed(GivenList))
        IN  /\ \A a, b \in 1..n :
                  ~Skipped(words(a), words(b)) =>
                      Jaccard(words(a), words(b)) = Jaccard(words(b), words(a))
            /\ Range(similar_pairs) =
                  {<<n - 1 - t[2], n - 1 - t[1], t[3]>> : t \in Range(mirrored)}

C22_Witness ==
    /\ pc = "matched"
    /\ \E t \in Range(similar_pairs) :
          Cardinality(WordSet(TextOf(t[1] + 1))) # Cardinality(WordSet(TextOf(t[2] + 1)))

\* the fallback would divide by an empty union
DividesByZero(statements_list) ==
    \E a, b \in DOMAIN statements_list :
        /\ a < b
        /\ ~Skipped(WordSet(TextOf(statements_list[a])), WordSet(TextOf(statements_list[b])))
        /\ WordSet(TextOf(statements_list[a])) \cup WordSet(TextOf(statements_list[b])) = {}

\* C25: the fallback matcher never reports a pair in which a statement has
\* an empty word set, at any threshold down to 0, and never divides by an
\* empty union.
C25_EmptySetsSkipped ==
    pc = "matched" =>
        /\ \A t \in Range(similar_pairs) :
              /\ WordSet(TextOf(t[1] + 1)) # {}
              /\ WordSet(TextOf(t[2] + 1)) # {}
        /\ ~DividesByZero(GivenList)

C25_Witness ==
    /\ pc = "matched"
    /\ similarity_threshold = 0
    /\ similar_pairs # <<>>
    /\ \E a, b \in DOMAIN heap :
          /\ a < b
          /\ WordSet(TextOf(a)) = {}
          /\ WordSet(TextOf(b)) # {}

\* the combined list of the interview pair a record belongs to
CombinedOf(r) ==
    LET theirs == Get(all_statements_by_speaker, r["speaker"])
    IN  Get(theirs, r["interview1"]) \o Get(theirs, r["interview2"])

\* the set sizes the fallback divides, for the pairs it does not pass over
SoundDivision(statements_list) ==
    \A a, b \in DOMAIN statements_list :
        LET words_i == WordSet(TextOf(statements_list[a]))
            words_j == WordSet(TextOf(statements_list[b]))
        IN  (a < b /\ ~Skipped(words_i, words_j)) =>
                /\ Cardinality(words_i \cup words_j) > 0
                /\ Cardinality(words_i \cap words_j) <= Cardinality(words_i \cup words_j)

StatementsIn(r, interview_id) ==
    Range(Get(Get(all_statements_by_speaker, r["speaker"]), interview_id))

\* C24: in every record, statement1 is a statement the record's speaker made
\* in interview1 and statement2 one the speaker made in interview2, in
\* whichever order the Matcher gave the indices, and each statement's
\* interview_id is the record's interview of that side.
C24_StatementsInOrder ==
    \A r \in Records :
        /\ r["statement1"] \in StatementsIn(r, r["interview1"])
        /\ r["statement2"] \in StatementsIn(r, r["interview2"])
        /\ "interview_id" \in DOMAIN heap[r["statement1"]]
        /\ "interview_id" \in DOMAIN heap[r["statement2"]]
        /\ heap[r["statement1"]]["interview_id"] = r["interview1"]
        /\ heap[r["statement2"]]["interview_id"] = r["interview2"]

\* a record made from a tuple whose first index is in the second interview
C24_Witness ==
    /\ pc = "process"
    /\ k = 1
    /\ similar_pairs[1][1] >= Boundary
    /\ similar_pairs[1][2] < Boundary
    /\ Records # {}

\* C30: for a combined list of exactly two statements the vectorizer
\* keeps no term (a term of one statement is in too few documents, a term of
\* both in too many), the fit fails, and what the Matcher returns is what the
\* fallback returns.
C30_TwoStatementsFallBack ==
    (pc = "process" /\ Len(combined_statements) = 2) =>
        /\ Vocabulary(DocsOf(combined_statements)) = {}
        /\ VectorizationFails(combined_statements)
        /\ similar_pairs = _find_similar_statements_simple(combined_statements)
        /\ log # <<>>
        /\ log[Len(log)] = "TF-IDF vectorization failed, using simpler approach"

\* two statements that share terms and differ in others, and are matched
C30_Witness ==
    /\ pc = "process"
    /\ Len(combined_statements) = 2
    /\ similar_pairs # <<>>
    /\ LET docs == DocsOf(combined_statements)
       IN  /\ \E term \in AllTerms(docs) : DocFreq(docs, term) = 2
           /\ \E term \in AllTerms(docs) : DocFreq(docs, term) = 1

\* where an interview comes in the order of the input mapping
PositionOf(interview_id) ==
    CHOOSE x \in DOMAIN transcriptions : transcriptions[x][1] = interview_id

\* a step that calls the Matcher for a pair of interviews
MatcherCall ==
    /\ pc' = "process"
    /\ k' = 0
    /\ (pc = "speakers" \/ <<i', j'>> # <<i, j>>)

\* the pair after (a, b) in "for i in range(n): for j in range(i + 1, n)"
PairAfter(a, b, n) == IF b + 1 < n THEN <<a, b + 1>> ELSE <<a + 1, a + 2>>

\* C28: for a speaker present in k >= 2 interviews the Matcher is called for
\* the pairs (0, 1), (0, 2), ..., (k - 2, k - 1) of the speaker's interviews,
\* each once and in this order, never for an interview with itself, and
\* with id1 the interview that comes earlier in the input; a speaker is left
\* only after the last pair, or at once when present in a single interview.
C28_EveryPairOnce ==
    [][/\ MatcherCall =>
              /\ s' = s
              /\ Len(interviews) >= 2
              /\ i' >= 0
              /\ i' < j'
              /\ j' < Len(interview_ids)
              /\ <<i', j'>> = IF pc = "speakers"
                              THEN <<0, 1>>
                              ELSE PairAfter(i, j, Len(interview_ids))
              /\ id1' # id2'
              /\ PositionOf(id1') < PositionOf(id2')
       /\ (pc = "process" /\ pc' = "speakers") =>
              /\ i = Len(interview_ids) - 2
              /\ j = Len(interview_ids) - 1
              /\ s' = s + 1
       /\ (pc = "speakers" /\ pc' = "speakers" /\ s' # s) =>
              /\ Len(interviews) < 2
              /\ s' = s + 1
       /\ (pc = "speakers" /\ pc' = "done") =>
              s > Len(all_statements_by_speaker)]_vars

\* the third pair of a speaker present in three interviews
C28_Witness ==
    /\ pc = "process"
    /\ Len(interview_ids) = 3
    /\ i = 1
    /\ j = 2

\* the records of one speaker and one pair of interviews, by position
RecordsOfPair(who, first, second) ==
    {x \in DOMAIN inconsistencies :
        /\ inconsistencies[x]["speaker"] = who
        /\ inconsistencies[x]["interview1"] = first
        /\ inconsistencies[x]["interview2"] = second}

\* the tuples the Matcher returns for a pair of interviews that span the two
SpanningMatches(theirs, first, second) ==
    LET similar == _find_similar_statements(Get(theirs, first) \o Get(theirs, second))
    IN  {x \in DOMAIN similar :
            SpansInterviews(similar[x][1], similar[x][2], Len(Get(theirs, first)))}

\* the records a statement appears in, by position
RecordsWith(stmt) ==
    {x \in DOMAIN inconsistencies :
        stmt \in {inconsistencies[x]["statement1"], inconsistencies[x]["statement2"]}}

\* a speaker with one statement in each of three interviews, every two of
\* which the Matcher pairs up
MutuallyMatching(entry) ==
    /\ Len(entry[2]) = 3
    /\ \A x \in 1..3 : Len(entry[2][x][2]) = 1
    /\ \A x, y \in 1..3 :
          x < y => SpanningMatches(entry[2], entry[2][x][1], entry[2][y][1]) # {}

\* C29: every pair of a speaker's interviews contributes one record for
\* each of its spanning matches, whatever the other pairs contributed, and
\* total_inconsistencies counts them all; a speaker whose statements in three
\* interviews match one another gets three records, and each of the three
\* statements is in two of them.
C29_NoDeduplication ==
    (pc = "done" /\ "total_inconsistencies" \in DOMAIN result) =>
        /\ \A e \in Range(all_statements_by_speaker) :
              \A x, y \in DOMAIN e[2] :
                  x < y =>
                      Cardinality(RecordsOfPair(e[1], e[2][x][1], e[2][y][1])) =
                          Cardinality(SpanningMatches(e[2], e[2][x][1], e[2][y][1]))
        /\ result["total_inconsistencies"] = Len(inconsistencies)
        /\ \A e \in Range(all_statements_by_speaker) :
              MutuallyMatching(e) =>
                  /\ result["total_inconsistencies"] >= 3
                  /\ \A x \in 1..3 : Cardinality(RecordsWith(e[2][x][2][1])) = 2

C29_Witness ==
    /\ pc = "done"
    /\ \E e \in Range(all_statements_by_speaker) : MutuallyMatching(e)
    /\ result["total_inconsistencies"] = 3

\* the aggregation loop is running
Aggregating == pc \in {"speakers", "process"}

\* the interview in whose list of the index a statement is held
OwnInterview(stmt) ==
    CHOOSE interview_id \in Range(InterviewIds) :
        \E e \in Range(all_statements_by_speaker) :
            /\ HasKey(e[2], interview_id)
            /\ stmt \in Range(Get(e[2], interview_id))

\* the statements of the records emitted so far
Emitted == UNION {{r["statement1"], r["statement2"]} : r \in Records}

\* C26, as stated: while the aggregation loop runs, neither the index nor
\* any statement dict it holds changes.
C26_AsStated ==
    [][Aggregating =>
           /\ all_statements_by_speaker' = all_statements_by_speaker
           /\ heap' = heap]_vars

\* C26, amended: while the aggregation loop runs, the index keeps its
\* speakers, interviews and lists, no statement dict loses or changes a field
\* it has, and the only change to a statement dict is the interview_id of
\* the statement's own interview being added; the statements of the
\* records already emitted do not change.
C26_OnlyStamps ==
    [][Aggregating =>
           /\ all_statements_by_speaker' = all_statements_by_speaker
           /\ DOMAIN heap' = DOMAIN heap
           /\ \A x \in DOMAIN heap :
                 \/ heap'[x] = heap[x]
                 \/ /\ DOMAIN heap'[x] = DOMAIN heap[x] \cup {"interview_id"}
                    /\ \A f \in DOMAIN heap[x] : heap'[x][f] = heap[x][f]
                    /\ heap'[x]["interview_id"] = OwnInterview(x)
           /\ \A x \in Emitted : heap'[x] = heap[x]]_vars

\* a statement of an emitted record is matched again, in a later pair of
\* interviews, and a second record holds it
C26_Witness ==
    /\ pc = "process"
    /\ k = 1
    /\ <<i, j>> # <<0, 1>>
    /\ \E x, y \in DOMAIN inconsistencies :
          /\ x < y
          /\ y = Len(inconsistencies)
          /\ inconsistencies[x]["interview2"] # inconsistencies[y]["interview2"]
          /\ inconsistencies[x]["statement1"] = inconsistencies[y]["statement1"]

ExpectedRecords(task) ==
    ProcessedBy(task, _find_similar_statements(CombinedOfTask(task)))[2]

\* the task's transform finds in the vectorizer what the task's own fit left
OwnFit(task) == vectorizer = Fitted(DocsOf(CombinedOfTask(task)))

====
